---------------------------- MODULE Spec2Model ----------------------------
(***************************************************************************)
(* Model of chess_board_locator.cpp (ChessBoardLocator::cameraCallback and *)
(* its helper findIntersection).                                           *)
(*                                                                         *)
(* Lengths are integers in units of 1/60000 m, so that the program's       *)
(* constants are whole numbers: 0.03 m = 1800, 0.05 m = 3000 and           *)
(* 0.05715 m = 3429.  The doubles of findIntersection are exact rationals  *)
(* extended with the IEEE-754 values NaN, +Inf and -Inf; rounding and the  *)
(* sign of zero are not modelled.                                          *)
(***************************************************************************)
EXTENDS Integers, Sequences, FiniteSets, TLC

VARIABLES
    pc,               \* position inside cameraCallback ("idle" between calls)
    bridge_,          \* member bridge_: the last converted image, or NULL
    msgs_,            \* member msgs_
    frame,            \* the (image, depth) pair of the call in progress
    lines,            \* local lines (result of HoughLinesP)
    h_indexes,        \* local h_indexes
    v_indexes,        \* local v_indexes
    hi, vj,           \* loop counters i, j of the intersection loops
    fi,               \* history: what the last findIntersection call did
    offered,          \* history: every cloud entry cp read so far
    verdict,          \* history: TRUE where the entry was pushed to data
    data,             \* local data (the board points)
    centroid,         \* local centroid
    a1_candidates, a8_candidates, h1_candidates,
    ci, cj, ck,       \* loop counters i, j, k of the search loops
    data_transformed, \* local data_transformed of the last triple
    error,            \* local error of the last triple
    scores,           \* history: the triples evaluated so far, in order
    best_score,       \* local best_score
    best_transform,   \* local best_transform
    published         \* history: the transforms sent with sendTransform

vars == <<pc, bridge_, msgs_, frame, lines, h_indexes, v_indexes, hi, vj, fi,
          offered, verdict, data, centroid, a1_candidates, a8_candidates,
          h1_candidates, ci, cj, ck, data_transformed, error, scores,
          best_score, best_transform, published>>

(***************************************************************************)
(* Bounds of the model.                                                    *)
(***************************************************************************)
MaxFrames == 2
MaxPoints == 4
MaxCoord == 1

(***************************************************************************)
(* Program constants.                                                      *)
(***************************************************************************)
ImageWidth == 640
ImageHeight == 480
\* 0.03 m, the literal of the duplicate test
DedupThreshold == 1800
\* 0.05 m, the margin around the centroid
Margin == 3000
\* 0.05715 m, the side of a board square
Square == 3429
\* float e = 1000 (m^2): 3.6e12 units^2 does not fit 32-bit integers, so it
\* is the largest of them, still above every squared distance of the model
ErrInit == 2147483647
\* float best_score = -1.0
BestInit == -1

(***************************************************************************)
(* Doubles: exact rationals n/d (d > 0, lowest terms) with NaN and +-Inf.  *)
(***************************************************************************)
Abs(x) == IF x < 0 THEN -x ELSE x

Sign(x) == IF x < 0 THEN -1 ELSE IF x > 0 THEN 1 ELSE 0

RECURSIVE GCD(_, _)
GCD(a, b) == IF b = 0 THEN a ELSE GCD(b, a % b)

DNaN == [k |-> "nan", n |-> 0, d |-> 1]

DInf(s) == [k |-> "inf", n |-> s, d |-> 1]

DFin(n, d) ==
    LET g == GCD(Abs(n), Abs(d))
        s == IF d < 0 THEN -1 ELSE 1
    IN  [k |-> "fin", n |-> s * (n \div g), d |-> s * (d \div g)]

DInt(i) == [k |-> "fin", n |-> i, d |-> 1]

DNeg(x) == IF x.k = "nan" THEN DNaN ELSE [x EXCEPT !.n = -x.n]

DAdd(x, y) ==
    IF x.k = "nan" \/ y.k = "nan" THEN DNaN
    ELSE IF x.k = "inf" /\ y.k = "inf" THEN (IF x.n = y.n THEN x ELSE DNaN)
    ELSE IF x.k = "inf" THEN x
    ELSE IF y.k = "inf" THEN y
    ELSE LET g == GCD(x.d, y.d)
         IN  DFin(x.n * (y.d \div g) + y.n * (x.d \div g), x.d * (y.d \div g))

DSub(x, y) == DAdd(x, DNeg(y))

DMul(x, y) ==
    IF x.k = "nan" \/ y.k = "nan" THEN DNaN
    ELSE IF x.k = "inf" \/ y.k = "inf"
         THEN (IF x.n = 0 \/ y.n = 0 THEN DNaN ELSE DInf(Sign(x.n) * Sign(y.n)))
    ELSE LET g1 == GCD(Abs(x.n), y.d)
             g2 == GCD(Abs(y.n), x.d)
         IN  DFin((x.n \div g1) * (y.n \div g2), (x.d \div g2) * (y.d \div g1))

\* x / y as IEEE-754 defines it; a zero divisor gives +-Inf, or NaN for 0/0
DDiv(x, y) ==
    IF x.k = "nan" \/ y.k = "nan" THEN DNaN
    ELSE IF x.k = "inf"
         THEN (IF y.k = "inf" THEN DNaN
               ELSE DInf(x.n * (IF y.n < 0 THEN -1 ELSE 1)))
    ELSE IF y.k = "inf" THEN DInt(0)
    ELSE IF y.n = 0 THEN (IF x.n = 0 THEN DNaN ELSE DInf(Sign(x.n)))
    ELSE LET g1 == GCD(Abs(x.n), Abs(y.n))
             g2 == GCD(x.d, y.d)
         IN  DFin((x.n \div g1) * (y.d \div g2), (x.d \div g2) * (y.n \div g1))

DIsZero(x) == x.k = "fin" /\ x.n = 0

\* x >= c and x < c for an integer c; false when x is NaN
DGeq(x, c) ==
    CASE x.k = "nan" -> FALSE
      [] x.k = "inf" -> x.n > 0
      [] OTHER -> x.n >= c * x.d

DLess(x, c) ==
    CASE x.k = "nan" -> FALSE
      [] x.k = "inf" -> x.n < 0
      [] OTHER -> x.n < c * x.d

\* (int)x for a finite x >= 0
DToInt(x) == x.n \div x.d

(***************************************************************************)
(* findIntersection (a and b are cv::Vec4i; a[0] is a[1] here).            *)
(***************************************************************************)
SlopeOf(a) == DDiv(DInt(a[4] - a[2]), DInt(a[3] - a[1]))

InterceptOf(a) == DSub(DInt(a[2]), DMul(SlopeOf(a), DInt(a[1])))

IntersectionX(a, b) ==
    DDiv(DSub(InterceptOf(b), InterceptOf(a)), DSub(SlopeOf(a), SlopeOf(b)))

IntersectionY(a, b) ==
    DAdd(DMul(SlopeOf(a), IntersectionX(a, b)), InterceptOf(a))

\* the test of the if statement
InBounds(x, y) ==
    DGeq(x, 0) /\ DLess(x, ImageWidth) /\ DGeq(y, 0) /\ DLess(y, ImageHeight)

findIntersection(a, b) ==
    LET x == IntersectionX(a, b)
        y == IntersectionY(a, b)
    IN  IF InBounds(x, y)
        THEN [x |-> DToInt(x), y |-> DToInt(y)]
        ELSE [x |-> -1, y |-> -1]

\* whether one of the three divisions of findIntersection has a zero divisor
DividesByZero(a, b) ==
    \/ a[3] - a[1] = 0
    \/ b[3] - b[1] = 0
    \/ DIsZero(DSub(SlopeOf(a), SlopeOf(b)))


(***************************************************************************)
(* Inputs.  An image stands for the segments HoughLinesP finds in it, a    *)
(* depth message for the organised cloud pcl::fromROSMsg makes of it.      *)
(***************************************************************************)
Images ==
    << \* 1: the board, two horizontal and two nearly vertical segments
       << <<100, 159, 540, 159>>, <<100, 321, 540, 321>>,
          <<239, 10, 240, 470>>, <<401, 10, 402, 470>> >>,
       \* 2: the board with a second segment along its left edge
       << <<100, 159, 540, 159>>, <<100, 321, 540, 321>>,
          <<239, 10, 240, 470>>, <<240, 10, 241, 470>>,
          <<401, 10, 402, 470>> >>,
       \* 3: a segment of zero horizontal extent
       << <<100, 159, 540, 159>>, <<239, 10, 239, 470>> >>,
       \* 4: no segment at all
       << >>,
       \* 5: crossings in the first column and in the first row
       << <<0, 100, 600, 100>>, <<0, 0, 600, 0>>,
          <<0, 50, 1, 450>>, <<300, 20, 301, 420>> >>,
       \* 6: a crossing below the last row, and a diagonal segment
       << <<0, 450, 600, 479>>, <<630, 10, 631, 400>>,
          <<100, 100, 300, 300>> >> >>

ImageIds == 1..Len(Images)

Clouds == {"flat", "holes", "slanted"}

point(x, y, z) == [x |-> x, y |-> y, z |-> z, ok |-> TRUE]

\* a cloud entry without a depth reading: x, y and z are NaN
NaNPoint == [x |-> 0, y |-> 0, z |-> 0, ok |-> FALSE]

\* cloud(p.x, p.y): a plane facing the camera, 27 pixels to a board square
cloud(c, px, py) ==
    CASE c = "flat" -> point((px - 320) * 127, (py - 240) * 127, 36000)
      [] c = "holes" ->
            IF px > 320 /\ py < 240 THEN NaNPoint
            ELSE point((px - 320) * 127, (py - 240) * 127, 36000)
      [] c = "slanted" ->
            point((px - 320) * 127, (py - 240) * 127, 36000 + (px - 320) * 30)

\* the image processing and cv::HoughLinesP on the image held in bridge_
HoughLinesP(img) == Images[img]

\* boost::shared_ptr: empty, or holding one image
NULL == << >>

(***************************************************************************)
(* Split into horizontal and vertical lines.                               *)
(***************************************************************************)
\* the split with >= for >
IsHorizontalOrTie(l) == Abs(l[3] - l[1]) >= Abs(l[4] - l[2])

IsHorizontal(l) == Abs(l[3] - l[1]) > Abs(l[4] - l[2])

RECURSIVE SplitFrom(_, _, _, _)
SplitFrom(ls, i, h, v) ==
    IF i > Len(ls) THEN [h |-> h, v |-> v]
    ELSE IF IsHorizontal(ls[i])
         THEN SplitFrom(ls, i + 1, Append(h, i), v)
         ELSE SplitFrom(ls, i + 1, h, Append(v, i))

(***************************************************************************)
(* Intersections: the guard on the result of findIntersection and the      *)
(* duplicate test against the points kept so far.                          *)
(***************************************************************************)
UsesIntersection(p) == p.x > 0 /\ p.y > 0

\* the duplicate test with <= for <
IsDuplicateInclusive(tp, cp) ==
    /\ tp.ok
    /\ cp.ok
    /\ Abs(tp.x - cp.x) + Abs(tp.y - cp.y) + Abs(tp.z - cp.z) <= DedupThreshold

\* abs(tp.x-cp.x) + abs(tp.y-cp.y) + abs(tp.z-cp.z) < 0.03, false on NaN
IsDuplicate(tp, cp) ==
    /\ tp.ok
    /\ cp.ok
    /\ Abs(tp.x - cp.x) + Abs(tp.y - cp.y) + Abs(tp.z - cp.z) < DedupThreshold

Include(d, cp) == ~ \E k \in 1..Len(d) : IsDuplicate(d[k], cp)

PushIfNew(d, cp) == IF Include(d, cp) THEN Append(d, cp) ELSE d

(***************************************************************************)
(* Centroid and corner candidates.  The centroid is kept as the sum of the *)
(* points and their number; it is NaN as soon as one point is.             *)
(***************************************************************************)
RECURSIVE SumOf(_, _)
SumOf(d, f) == IF d = << >> THEN 0 ELSE d[1][f] + SumOf(Tail(d), f)

compute3DCentroid(d) ==
    IF d = << >> THEN [ok |-> TRUE, n |-> 1, sx |-> 0, sy |-> 0]
    ELSE [ok |-> \A k \in 1..Len(d) : d[k].ok, n |-> Len(d),
          sx |-> SumOf(d, "x"), sy |-> SumOf(d, "y")]

\* p.x < centroid[0]-0.05 and the like, multiplied through by the count
LeftOf(p, c) == p.ok /\ c.ok /\ p.x * c.n < c.sx - Margin * c.n

RightOf(p, c) == p.ok /\ c.ok /\ p.x * c.n > c.sx + Margin * c.n

Above(p, c) == p.ok /\ c.ok /\ p.y * c.n < c.sy - Margin * c.n

Below(p, c) == p.ok /\ c.ok /\ p.y * c.n > c.sy + Margin * c.n

\* the chain of tests with the margin of the h1 test on the wrong side
BucketSignSlip(p, c) ==
    IF LeftOf(p, c) /\ Below(p, c) THEN "a1"
    ELSE IF LeftOf(p, c) /\ Above(p, c) THEN "a8"
    ELSE IF p.ok /\ c.ok /\ p.x * c.n > c.sx - Margin * c.n /\ Below(p, c)
         THEN "h1"
    ELSE "none"

Bucket(p, c) ==
    IF LeftOf(p, c) /\ Below(p, c) THEN "a1"
    ELSE IF LeftOf(p, c) /\ Above(p, c) THEN "a8"
    ELSE IF RightOf(p, c) /\ Below(p, c) THEN "h1"
    ELSE "none"

RECURSIVE CandidatesFrom(_, _, _, _)
CandidatesFrom(d, c, i, acc) ==
    IF i > Len(d) THEN acc
    ELSE LET b == Bucket(d[i], c)
         IN  CandidatesFrom(d, c, i + 1,
                 IF b = "none" THEN acc ELSE [acc EXCEPT ![b] = Append(@, i)])

Candidates(d, c) ==
    CandidatesFrom(d, c, 1, [a1 |-> << >>, a8 |-> << >>, h1 |-> << >>])

(***************************************************************************)
(* Transforms.  The board faces the camera with x to the right and y down, *)
(* so the rotation of every fitted transform is the half turn about x,     *)
(* (x, y, z) -> (x, -y, -z); a transform is its translation t.             *)
(***************************************************************************)
Transform(tx, ty, tz) == [tx |-> tx, ty |-> ty, tz |-> tz]

\* Eigen::Matrix4f declared without a value: whatever the memory holds
Uninitialised == {Transform(0, 0, 0), Transform(3429, 3429, 36000)}

\* the ideal a1, a8, h1 have centroid (3, 3, 0) squares; the rigid fit maps
\* the centroid of the three candidates onto it
estimateRigidTransformationSVD(a1, a8, h1) ==
    Transform(3 * Square - (a1.x + a8.x + h1.x) \div 3,
              3 * Square + (a1.y + a8.y + h1.y) \div 3,
              (a1.z + a8.z + h1.z) \div 3)

transformPoint(p, t) ==
    IF p.ok THEN point(p.x + t.tx, t.ty - p.y, t.tz - p.z) ELSE NaNPoint

transformPointCloud(d, t) == [k \in 1..Len(d) |-> transformPoint(d[k], t)]

\* Matrix4f::inverse(): x = R (x' - t), the rotation being its own inverse
Inverse(t) == Transform(-t.tx, t.ty, t.tz)

tfFromEigen(t) == [origin |-> <<t.tx, t.ty, t.tz>>, basis |-> "half turn about x"]

(***************************************************************************)
(* Fit error of a transformed cloud against the 7x7 grid.                  *)
(***************************************************************************)
GridDistance(pt, x, y) ==
    (Square * x - pt.x) * (Square * x - pt.x)
        + (Square * y - pt.y) * (Square * y - pt.y)

\* the two loops stopping one short, at x < 7 and y < 7
PointErrorShortLoops(pt) ==
    LET es == {ErrInit} \cup
                  (IF pt.ok
                   THEN {GridDistance(pt, x, y) : x \in 1..6, y \in 1..6}
                   ELSE {})
    IN  CHOOSE e \in es : \A iter \in es : e <= iter

\* float e = 1000 and the two loops over x and y: the least of the initial
\* value and the 49 values of iter (iter < e is false for a NaN point)
PointError(pt) ==
    LET es == {ErrInit} \cup
                  (IF pt.ok
                   THEN {GridDistance(pt, x, y) : x \in 1..7, y \in 1..7}
                   ELSE {})
    IN  CHOOSE e \in es : \A iter \in es : e <= iter

RECURSIVE FitError(_)
FitError(dt) == IF dt = << >> THEN 0 ELSE PointError(dt[1]) + FitError(Tail(dt))

\* the update with <= for <
ImprovesOrTies(err, best) == best < 0 \/ err <= best

\* the test of the update
Improves(err, best) == best < 0 \/ err < best


(***************************************************************************)
(* State at construction, and the locals at the start of a call.           *)
(***************************************************************************)
NoCall ==
    [a |-> << >>, b |-> << >>, p |-> [x |-> -1, y |-> -1], divzero |-> FALSE,
     used |-> FALSE]

NoFrame == [image |-> 0, depth |-> "none"]

FreshLocals ==
    /\ h_indexes = << >>
    /\ v_indexes = << >>
    /\ hi = 1
    /\ vj = 1
    /\ fi = NoCall
    /\ offered = << >>
    /\ verdict = << >>
    /\ data = << >>
    /\ centroid = compute3DCentroid(<< >>)
    /\ a1_candidates = << >>
    /\ a8_candidates = << >>
    /\ h1_candidates = << >>
    /\ ci = 1
    /\ cj = 1
    /\ ck = 1
    /\ data_transformed = << >>
    /\ error = 0
    /\ scores = << >>
    /\ best_score = BestInit
    /\ best_transform = Transform(0, 0, 0)
    /\ published = << >>

\* every local of cameraCallback as it is declared
ResetLocals ==
    /\ h_indexes' = << >>
    /\ v_indexes' = << >>
    /\ hi' = 1
    /\ vj' = 1
    /\ fi' = NoCall
    /\ offered' = << >>
    /\ verdict' = << >>
    /\ data' = << >>
    /\ centroid' = compute3DCentroid(<< >>)
    /\ a1_candidates' = << >>
    /\ a8_candidates' = << >>
    /\ h1_candidates' = << >>
    /\ ci' = 1
    /\ cj' = 1
    /\ ck' = 1
    /\ data_transformed' = << >>
    /\ error' = 0
    /\ scores' = << >>
    /\ best_score' = BestInit
    /\ best_transform' = Transform(0, 0, 0)
    /\ published' = << >>

Init ==
    /\ pc = "idle"
    /\ bridge_ = NULL
    /\ msgs_ = 0
    /\ frame = NoFrame
    /\ lines = << >>
    /\ FreshLocals

(***************************************************************************)
(* cameraCallback, step by step.                                           *)
(***************************************************************************)
\* toCvCopy (ok: it does not throw), fromROSMsg, the image processing and
\* HoughLinesP.  With bridge_ still empty, bridge_->image is a null
\* dereference and the node dies.
ConvertImage(image, ok, depth) ==
    /\ pc = "idle"
    /\ msgs_ < MaxFrames
    /\ bridge_' = IF ok THEN <<image>> ELSE bridge_
    /\ frame' = [image |-> image, depth |-> depth]
    /\ IF bridge_' = NULL
       THEN pc' = "crashed" /\ lines' = << >>
       ELSE pc' = "split" /\ lines' = HoughLinesP(bridge_'[1])
    /\ ResetLocals
    /\ UNCHANGED msgs_

SplitLines ==
    /\ pc = "split"
    /\ LET s == SplitFrom(lines, 1, << >>, << >>)
       IN  h_indexes' = s.h /\ v_indexes' = s.v
    /\ pc' = "intersect"
    /\ UNCHANGED <<bridge_, msgs_, frame, lines, hi, vj, fi, offered, verdict,
                   data, centroid, a1_candidates, a8_candidates, h1_candidates,
                   ci, cj, ck, data_transformed, error, scores, best_score,
                   best_transform, published>>

\* the record of a call findIntersection(a, b) and of the guard on its result
CallOf(a, b) ==
    [a |-> a, b |-> b, p |-> findIntersection(a, b),
     divzero |-> DividesByZero(a, b),
     used |-> UsesIntersection(findIntersection(a, b))]

\* one pass of the inner loop over (h_indexes[i], v_indexes[j])
IntersectPair ==
    /\ pc = "intersect"
    /\ hi <= Len(h_indexes)
    /\ vj <= Len(v_indexes)
    /\ LET hl == lines[h_indexes[hi]]
           vl == lines[v_indexes[vj]]
           p == findIntersection(hl, vl)
           cp == cloud(frame.depth, p.x, p.y)
       IN  /\ fi' = CallOf(hl, vl)
           /\ IF UsesIntersection(p)
              THEN /\ data' = PushIfNew(data, cp)
                   /\ offered' = Append(offered, cp)
                   /\ verdict' = Append(verdict, Include(data, cp))
              ELSE UNCHANGED <<data, offered, verdict>>
    /\ IF vj < Len(v_indexes)
       THEN vj' = vj + 1 /\ hi' = hi
       ELSE vj' = 1 /\ hi' = hi + 1
    /\ UNCHANGED <<pc, bridge_, msgs_, frame, lines, h_indexes, v_indexes,
                   centroid, a1_candidates, a8_candidates, h1_candidates,
                   ci, cj, ck, data_transformed, error, scores, best_score,
                   best_transform, published>>

\* the loops are over: centroid, candidates, and the declarations of
\* best_score and of best_transform, which gets no value
SelectCandidates ==
    /\ pc = "intersect"
    /\ hi > Len(h_indexes) \/ Len(v_indexes) = 0
    /\ centroid' = compute3DCentroid(data)
    /\ LET c == Candidates(data, centroid')
       IN  /\ a1_candidates' = c.a1
           /\ a8_candidates' = c.a8
           /\ h1_candidates' = c.h1
    /\ best_score' = BestInit
    /\ best_transform' \in Uninitialised
    /\ pc' = "search"
    /\ UNCHANGED <<bridge_, msgs_, frame, lines, h_indexes, v_indexes, hi, vj,
                   fi, offered, verdict, data, ci, cj, ck, data_transformed,
                   error, scores, published>>

SearchPending ==
    /\ ci <= Len(a1_candidates)
    /\ cj <= Len(a8_candidates)
    /\ ck <= Len(h1_candidates)

\* one pass of the innermost loop over (i, j, k)
EvaluateTriple ==
    /\ pc = "search"
    /\ SearchPending
    /\ LET t == estimateRigidTransformationSVD(data[a1_candidates[ci]],
                    data[a8_candidates[cj]], data[h1_candidates[ck]])
           dt == transformPointCloud(data, t)
           err == FitError(dt)
       IN  /\ data_transformed' = dt
           /\ error' = err
           /\ scores' = Append(scores,
                  [i |-> ci, j |-> cj, k |-> ck, error |-> err, t |-> t])
           /\ IF Improves(err, best_score)
              THEN best_score' = err /\ best_transform' = t
              ELSE UNCHANGED <<best_score, best_transform>>
    /\ IF ck < Len(h1_candidates)
       THEN ck' = ck + 1 /\ cj' = cj /\ ci' = ci
       ELSE IF cj < Len(a8_candidates)
            THEN ck' = 1 /\ cj' = cj + 1 /\ ci' = ci
            ELSE ck' = 1 /\ cj' = 1 /\ ci' = ci + 1
    /\ UNCHANGED <<pc, bridge_, msgs_, frame, lines, h_indexes, v_indexes, hi,
                   vj, fi, offered, verdict, data, centroid, a1_candidates,
                   a8_candidates, h1_candidates, published>>

\* the loops are over: the transform is inverted and sent, whatever it is
Publish ==
    /\ pc = "search"
    /\ ~ SearchPending
    /\ published' = Append(published,
           [transform |-> tfFromEigen(Inverse(best_transform)),
            frame_id |-> frame.depth, child_frame_id |-> "chess_board"])
    /\ msgs_' = msgs_ + 1
    /\ pc' = "idle"
    /\ UNCHANGED <<bridge_, frame, lines, h_indexes, v_indexes, hi, vj, fi,
                   offered, verdict, data, centroid, a1_candidates,
                   a8_candidates, h1_candidates, ci, cj, ck, data_transformed,
                   error, scores, best_score, best_transform>>

Next ==
    \/ \E image \in ImageIds, ok \in BOOLEAN, depth \in Clouds :
           ConvertImage(image, ok, depth)
    \/ SplitLines
    \/ IntersectPair
    \/ SelectCandidates
    \/ EvaluateTriple
    \/ Publish

Spec == Init /\ [][Next]_vars

(***************************************************************************)
(* The line stage alone, on every pair of segments of a bounded set: the   *)
(* split of the two segments, or findIntersection applied to them.         *)
(***************************************************************************)
GridSegments ==
    {<<x0, y0, x1, y1>> : x0 \in 0..MaxCoord, y0 \in 0..MaxCoord,
                          x1 \in 0..MaxCoord, y1 \in 0..MaxCoord}

BorderSegments ==
    {<<0, 100, 600, 100>>, <<0, 479, 600, 479>>, <<0, 480, 600, 480>>,
     <<0, 50, 1, 450>>, <<300, 20, 301, 420>>, <<639, 0, 640, 400>>,
     <<640, 0, 641, 400>>, <<239, 10, 239, 470>>}

Segments == GridSegments \cup BorderSegments

InitLines ==
    /\ pc \in {"split", "call"}
    /\ bridge_ = NULL
    /\ msgs_ = 0
    /\ frame = NoFrame
    /\ lines \in {<<a, b>> : a \in Segments, b \in Segments}
    /\ FreshLocals

CallFindIntersection ==
    /\ pc = "call"
    /\ fi' = CallOf(lines[1], lines[2])
    /\ pc' = "called"
    /\ UNCHANGED <<bridge_, msgs_, frame, lines, h_indexes, v_indexes, hi, vj,
                   offered, verdict, data, centroid, a1_candidates,
                   a8_candidates, h1_candidates, ci, cj, ck, data_transformed,
                   error, scores, best_score, best_transform, published>>

NextLines == SplitLines \/ CallFindIntersection

SpecLines == InitLines /\ [][NextLines]_vars

(***************************************************************************)
(* The point stages alone, on every sequence of cloud entries of a bounded *)
(* set: the entries are read one by one, as the passes of the intersection *)
(* loops read them, and then the candidates are chosen and searched.       *)
(***************************************************************************)
CloudEntries ==
    { point(-3 * Square, 3 * Square, 36000),         \* the corner a1
      point(-3 * Square, -3 * Square, 36000),        \* the corner a8
      point(3 * Square, 3 * Square, 36000),          \* the corner h1
      point(3 * Square, 3 * Square, 39000),          \* h1, 0.05 m behind
      point(-3 * Square + 1800, 3 * Square, 36000),  \* 0.03 m from a1
      point(-3 * Square, 3 * Square + 900, 36000),   \* 0.015 m from a1
      point(0, Square, 36000),                       \* near the middle
      NaNPoint }

InitBoard ==
    /\ pc = "intersect"
    /\ bridge_ = NULL
    /\ msgs_ = 0
    /\ frame = NoFrame
    /\ lines = << >>
    /\ FreshLocals

\* what a pass of the intersection loops does with the cloud entry cp
ReadEntry(cp) ==
    /\ pc = "intersect"
    /\ Len(offered) < MaxPoints
    /\ data' = PushIfNew(data, cp)
    /\ offered' = Append(offered, cp)
    /\ verdict' = Append(verdict, Include(data, cp))
    /\ UNCHANGED <<pc, bridge_, msgs_, frame, lines, h_indexes, v_indexes, hi,
                   vj, fi, centroid, a1_candidates, a8_candidates,
                   h1_candidates, ci, cj, ck, data_transformed, error, scores,
                   best_score, best_transform, published>>

NextBoard ==
    \/ \E cp \in CloudEntries : ReadEntry(cp)
    \/ SelectCandidates
    \/ EvaluateTriple
    \/ Publish

SpecBoard == InitBoard /\ [][NextBoard]_vars

(***************************************************************************)
(* Properties.                                                             *)
(***************************************************************************)
Range(q) == {q[n] : n \in 1..Len(q)}

Sentinel == [x |-> -1, y |-> -1]

SomeCandidateSetEmpty ==
    a1_candidates = << >> \/ a8_candidates = << >> \/ h1_candidates = << >>

\* C1: a call that ends with one of the three candidate sets empty reports
\* "no solution": it sends no transform.
C1_NoTransformWithoutCandidates ==
    (pc = "idle" /\ msgs_ > 0 /\ SomeCandidateSetEmpty) => published = << >>

UndefinedSlope(a) == a[3] - a[1] = 0

EqualSlopes(a, b) == (a[4] - a[2]) * (b[3] - b[1]) = (b[4] - b[2]) * (a[3] - a[1])

\* C2: for two segments of which one has zero horizontal extent, or which
\* have the same slope, findIntersection returns (-1,-1) and divides by zero
\* nowhere.
C2_DegeneratePairsGuarded ==
    (pc = "called"
        /\ (UndefinedSlope(fi.a) \/ UndefinedSlope(fi.b) \/ EqualSlopes(fi.a, fi.b)))
    => (fi.p = Sentinel /\ ~ fi.divzero)

\* the sum of the absolute coordinate differences of two valid points
L1(p, q) == Abs(p.x - q.x) + Abs(p.y - q.y) + Abs(p.z - q.z)

KeptIndexes == {n \in 1..Len(offered) : verdict[n]}

\* data is the entries kept, in the order they were read
DataIsTheKeptEntries ==
    /\ Len(verdict) = Len(offered)
    /\ Len(data) = Cardinality(KeptIndexes)
    /\ \A k \in 1..Len(data) :
           data[k] = offered[CHOOSE n \in KeptIndexes :
                                 Cardinality({m \in KeptIndexes : m <= n}) = k]

\* C3, as amended: an entry read from the cloud is discarded if and only if
\* a point kept before it lies at L1 distance strictly below 0.03 from it
\* (at exactly 0.03 it is kept; a NaN entry is at no distance from anything);
\* data holds the kept entries in reading order, and no two of them are
\* strictly closer than 0.03.
C3_DiscardStrictlyBelowThreshold ==
    /\ DataIsTheKeptEntries
    /\ \A n \in 1..Len(offered) :
           ~ verdict[n] <=>
               \E m \in 1..(n - 1) :
                   /\ verdict[m]
                   /\ offered[m].ok
                   /\ offered[n].ok
                   /\ L1(offered[m], offered[n]) < DedupThreshold
    /\ \A i \in 1..Len(data), j \in 1..Len(data) :
           (i # j /\ data[i].ok /\ data[j].ok)
               => L1(data[i], data[j]) >= DedupThreshold

\* C3, as stated: an entry is discarded if and only if a point kept before
\* it lies at L1 distance at most 0.03 from it.
C3_DiscardAtOrBelowThreshold ==
    \A n \in 1..Len(offered) :
        ~ verdict[n] <=>
            \E m \in 1..(n - 1) :
                /\ verdict[m]
                /\ offered[m].ok
                /\ offered[n].ok
                /\ L1(offered[m], offered[n]) <= DedupThreshold

\* an entry was discarded, and two kept points are exactly 0.03 apart
C3_Witness ==
    /\ \E n \in 1..Len(offered) : ~ verdict[n]
    /\ \E i \in 1..Len(data), j \in 1..Len(data) :
           data[i].ok /\ data[j].ok /\ L1(data[i], data[j]) = DedupThreshold

\* C4: every point of the board-point collection has a valid 3D coordinate
\* (an intersection whose cloud entry is missing adds nothing to data).
C4_BoardPointsValid == \A k \in 1..Len(data) : data[k].ok

CandidateSets == <<Range(a1_candidates), Range(a8_candidates), Range(h1_candidates)>>

\* |offset of data[i] from the centroid| <= 0.05 along x or along y
InMarginBand(i) ==
    LET n == Len(data)
    IN  /\ \A k \in 1..n : data[k].ok
        /\ \/ Abs(n * data[i].x - SumOf(data, "x")) <= Margin * n
           \/ Abs(n * data[i].y - SumOf(data, "y")) <= Margin * n

\* C5: once the candidates are chosen, the three candidate sets are sets of
\* indexes of data, pairwise disjoint, and a point whose x offset or y offset
\* from the centroid is at most 0.05 in magnitude is in none of them.
C5_CandidatesDisjointOutsideMargin ==
    pc \in {"search", "idle"} =>
        /\ \A s \in 1..3 : CandidateSets[s] \subseteq 1..Len(data)
        /\ \A s \in 1..3, t \in 1..3 :
               s # t => CandidateSets[s] \cap CandidateSets[t] = {}
        /\ \A i \in 1..Len(data) :
               InMarginBand(i) => \A s \in 1..3 : i \notin CandidateSets[s]

\* the three sets are non-empty and some point lies in the margin band
C5_Witness ==
    /\ pc = "search"
    /\ ~ SomeCandidateSetEmpty
    /\ \E i \in 1..Len(data) : InMarginBand(i)

\* the position of the triple (i, j, k) in the order of the three loops
TripleNumber(i, j, k) ==
    ((i - 1) * Len(a8_candidates) + (j - 1)) * Len(h1_candidates) + k

FirstMinimum ==
    CHOOSE n \in 1..Len(scores) :
        /\ \A m \in 1..Len(scores) : scores[n].error <= scores[m].error
        /\ \A m \in 1..(n - 1) : scores[m].error > scores[n].error

\* C6: the triples are evaluated in the order a1 outer, a8 middle, h1 inner;
\* at every point of the search best_score and best_transform are those of
\* the first triple, in that order, whose fit score is the least so far; and
\* when the search is over with three non-empty sets every triple has been
\* evaluated.
C6_BestIsFirstMinimum ==
    /\ \A n \in 1..Len(scores) :
           TripleNumber(scores[n].i, scores[n].j, scores[n].k) = n
    /\ scores # << >> =>
           /\ best_score = scores[FirstMinimum].error
           /\ best_transform = scores[FirstMinimum].t
    /\ (pc = "idle" /\ msgs_ > 0 /\ ~ SomeCandidateSetEmpty) =>
           Len(scores) = Len(a1_candidates) * Len(a8_candidates)
                             * Len(h1_candidates)

\* the search is over and a later triple with another transform ties with
\* the winner
C6_Witness ==
    /\ pc = "idle"
    /\ \E m \in 1..Len(scores), n \in 1..Len(scores) :
           /\ m < n
           /\ scores[m].error = best_score
           /\ scores[n].error = best_score
           /\ scores[m].t = best_transform
           /\ scores[n].t # best_transform

\* C7: what a call processes is decided by its own (image, cloud) pair: the
\* segments it works on are those of the image it was given, also when the
\* conversion of that image failed and bridge_ holds an earlier image.
C7_FrameUsesOwnImage ==
    (frame # NoFrame /\ pc # "crashed") => lines = HoughLinesP(frame.image)

OnGridXY(pt) ==
    \E x \in 1..7, y \in 1..7 : pt.x = Square * x /\ pt.y = Square * y

\* the squared distance in the x-y plane to the nearest grid intersection
NearestPlanar(pt) ==
    LET ds == {(Square * x - pt.x) * (Square * x - pt.x)
                   + (Square * y - pt.y) * (Square * y - pt.y) :
               x \in 1..7, y \in 1..7}
    IN  CHOOSE d \in ds : \A o \in ds : d <= o

RECURSIVE SumNearestPlanar(_)
SumNearestPlanar(dt) ==
    IF dt = << >> THEN 0 ELSE NearestPlanar(dt[1]) + SumNearestPlanar(Tail(dt))

\* C8, as amended: the fit score of a triple is the sum over the transformed
\* board points of the squared distance, in the x-y plane of the board, to
\* the nearest of the 49 grid intersections (the z coordinate is not
\* compared; a point's share is capped at the initial 1000, which no point
\* within 31 m of the grid reaches); it is zero if and only if every
\* transformed point has the x and y of a grid intersection.
C8_FitScoreIsPlanar ==
    scores # << >> =>
        /\ error = SumNearestPlanar(data_transformed)
        /\ error = 0 <=> \A k \in 1..Len(data_transformed) :
                             OnGridXY(data_transformed[k])

\* C8, as stated: the fit score is zero if and only if every transformed
\* point coincides with a grid intersection in all three coordinates.
C8_FitScoreZeroIffOnGrid ==
    scores # << >> =>
        (error = 0 <=> \A k \in 1..Len(data_transformed) :
                           /\ OnGridXY(data_transformed[k])
                           /\ data_transformed[k].z = 0)

\* a triple scored zero although a transformed point is off the board plane
C8_Witness ==
    /\ scores # << >>
    /\ error = 0
    /\ \E k \in 1..Len(data_transformed) : data_transformed[k].z # 0

Occurrences(q, i) == Cardinality({n \in 1..Len(q) : q[n] = i})

HorizontalExtent(l) == Abs(l[3] - l[1])

VerticalExtent(l) == Abs(l[4] - l[2])

\* C9, as amended: the split puts every segment in exactly one of the two
\* groups, once; a segment is horizontal exactly when its horizontal extent
\* exceeds its vertical extent, so a tie (a zero-length segment included) is
\* vertical.
C9_SplitTiesVertical ==
    pc = "intersect" =>
        \A i \in 1..Len(lines) :
            /\ Occurrences(h_indexes, i) + Occurrences(v_indexes, i) = 1
            /\ Occurrences(h_indexes, i) = 1 <=>
                   HorizontalExtent(lines[i]) > VerticalExtent(lines[i])

\* C9, as stated: every segment is in exactly one group, and a tie is
\* horizontal.
C9_SplitTiesHorizontal ==
    pc = "intersect" =>
        \A i \in 1..Len(lines) :
            /\ Occurrences(h_indexes, i) + Occurrences(v_indexes, i) = 1
            /\ Occurrences(h_indexes, i) = 1 <=>
                   HorizontalExtent(lines[i]) >= VerticalExtent(lines[i])

\* a tie of non-zero length was split off as vertical beside a horizontal one
C9_Witness ==
    /\ pc = "intersect"
    /\ \E i \in Range(v_indexes) :
           /\ HorizontalExtent(lines[i]) = VerticalExtent(lines[i])
           /\ HorizontalExtent(lines[i]) > 0
    /\ h_indexes # << >>

\* C10: for a pair with a unique intersection, the intersection goes on to
\* the cloud lookup if and only if it lies within 0 <= x < 640, 0 <= y < 480.
C10_LookupIffInBounds ==
    (fi # NoCall
        /\ ~ UndefinedSlope(fi.a) /\ ~ UndefinedSlope(fi.b)
        /\ ~ EqualSlopes(fi.a, fi.b))
    => (fi.used <=> InBounds(IntersectionX(fi.a, fi.b), IntersectionY(fi.a, fi.b)))

=============================================================================
